---- MODULE Spec2Model ----
(***************************************************************************)
(* Model of databay's Buffer (src/databay/misc/buffers.py): the            *)
(* accumulator that gathers records over successive ticks and releases     *)
(* them as one batch when a manual flush is pending or a controller fires. *)
(*                                                                         *)
(* Records are modelled by integer ids handed out in increasing order, so  *)
(* that loss, duplication and reordering are visible.  Wall-clock time is  *)
(* a bounded integer clock.  A custom controller is an arbitrary callable: *)
(* each evaluation yields true, false or an exception.                     *)
(*                                                                         *)
(* The second part models Outlet (src/databay/outlet.py): several threads  *)
(* call try_start, try_shutdown and _push on one outlet; each call is a    *)
(* frame on its thread's stack, since a hook may itself call try_start or  *)
(* try_shutdown.  The two parts have separate specifications, each leaving *)
(* the other object as constructed.                                        *)
(***************************************************************************)
EXTENDS Integers, Sequences, FiniteSets, TLC

\* ---- bounds ----
MaxRecords == 4      \* records ever passed to execute
MaxBatch == 2        \* records passed to one execute call
MaxCount == 2        \* largest count_threshold explored
MaxThreshold == 1    \* largest time_threshold explored
MaxTime == 2         \* last instant of the clock
MaxCustom == 2       \* custom controllers configured at most
NumThreads == 2      \* threads that share the outlet
MaxCalls == 3        \* calls made on the outlet in all (nested ones included)
MaxDepth == 2        \* a call, and one call made from inside its hook

\* Python's None, for count_threshold, time_threshold and time_start
None == -1

VARIABLES
    count_threshold,    \* self.count_threshold: None or an integer
    time_threshold,     \* self.time_threshold: None or a duration
    custom_controllers, \* self.custom_controllers: list of callables (names)
    records,            \* the list self.records refers to
    time_start,         \* self.time_start
    flush,              \* self.flush
    now,                \* time.time()
    next_id,            \* id of the next record a source will produce
    outcome,            \* of the step just taken: "idle", "returned", "raised"
    rv,                 \* the list returned by the execute call just made
    rv_is_records,      \* the returned list is the very object self.records
    evals,              \* controller evaluations of the execute call just made
    pending,            \* history: records passed since the last release
    flush_requested,    \* history: a flush was requested since the last release
    calls               \* history: parity of the number of execute calls made

vars == <<count_threshold, time_threshold, custom_controllers, records,
          time_start, flush, now, next_id, outcome, rv, rv_is_records,
          evals, pending, flush_requested, calls>>

config == <<count_threshold, time_threshold, custom_controllers>>

VARIABLES
    active,             \* self._active
    uses_coroutine,     \* self._uses_coroutine
    push_kind,          \* how the subclass defines push: "coroutine", "function"
    lock,               \* self._thread_lock: 0 when free, else the holder
    stack,              \* per thread, the frames of its calls on the outlet
    ncalls,             \* history: calls begun, per method
    starts,             \* history: writes that turned _active from False to True
    stops,              \* history: writes that turned _active from True to False
    on_starts,          \* history: invocations of on_start
    on_shutdowns,       \* history: invocations of on_shutdown
    last_ret,           \* how the call ended by the step just taken ended
    last_push,          \* how the push body ended by the step just taken ended
    last_read           \* what the read of `active` just made returned

ovars == <<active, uses_coroutine, push_kind, lock, stack, ncalls, starts,
           stops, on_starts, on_shutdowns, last_ret, last_push, last_read>>

allvars == <<vars, ovars>>

Threads == 1..NumThreads

Ops == {"try_start", "try_shutdown", "_push"}

\* the (records, update) pairs handed to _push
Batches == {<<"r1", "u1">>, <<"r2", "u2">>}

\* ---- Outlet.__init__ ----
\* variant: push is never recognised as a coroutine function
iscoroutinefunction_never(kind) == FALSE

\* asyncio.iscoroutinefunction(self.push)
iscoroutinefunction(kind) == kind = "coroutine"

\* an outlet just constructed, with no call made on it
OutletConstructed ==
    /\ active = FALSE
    /\ uses_coroutine = iscoroutinefunction(push_kind)
    /\ lock = 0
    /\ stack = [t \in Threads |-> <<>>]
    /\ ncalls = [op \in Ops |-> 0]
    /\ starts = 0 /\ stops = 0 /\ on_starts = 0 /\ on_shutdowns = 0
    /\ last_ret = "none" /\ last_push = "none" /\ last_read = "none"

OutletIdle == push_kind = "function" /\ OutletConstructed

\* ---- helpers ----
CustomNames == <<"c1", "c2", "c3">>

Results == {"true", "false", "raise"}

\* the list <<a, a+1, ..., b-1>>
Ids(a, b) == [i \in 1..(b - a) |-> a + i - 1]

\* ---- Buffer.__init__ ----
BufferConstructed ==
    /\ count_threshold \in {None} \cup (0..MaxCount)
    /\ time_threshold \in {None} \cup (0..MaxThreshold)
    /\ custom_controllers \in {SubSeq(CustomNames, 1, n) : n \in 0..MaxCustom}
    /\ records = <<>>
    /\ time_start = None
    /\ flush = FALSE
    /\ now = 0
    /\ next_id = 1
    /\ outcome = "idle"
    /\ rv = <<>>
    /\ rv_is_records = FALSE
    /\ evals = <<>>
    /\ pending = <<>>
    /\ flush_requested = FALSE
    /\ calls = 0

\* a Buffer just constructed, next to an outlet that is left alone
Init == BufferConstructed /\ OutletIdle

\* ---- Buffer.count_controller ----
\* variant: the threshold itself already triggers (">=" for ">")
count_controller_inclusive(recs) == Len(recs) >= count_threshold

count_controller(recs) == Len(recs) > count_threshold

\* ---- Buffer.time_controller ----
\* variant: every evaluation restarts the clock
time_controller_start_always(ts, t1) == t1

\* lines 36-37: the clock starts when the controller is first evaluated
time_controller_start(ts, t1) == IF ts = None THEN t1 ELSE ts

\* variant: triggers at the threshold, not after it
time_controller_inclusive(start, t2) == t2 >= start + time_threshold

\* lines 39-42: strictly later than start + threshold
time_controller(start, t2) == t2 > start + time_threshold

\* ---- Buffer.get_controllers ----
get_controllers ==
    (IF count_threshold # None THEN <<"count">> ELSE <<>>)
    \o (IF time_threshold # None THEN <<"time">> ELSE <<>>)
    \o custom_controllers

\* One evaluation `controller(self.records)` of the loop of execute, on the
\* frame fr of the call.  oc gives what each custom controller does this
\* time; t1 and t2 are the two readings of time.time() in time_controller.
evaluate(c, oc, t1, t2, fr) ==
    LET start == time_controller_start(fr.time_start, t1)
        res == CASE c = "count" ->
                      IF count_controller(fr.records) THEN "true" ELSE "false"
                 [] c = "time" ->
                      IF time_controller(start, t2) THEN "true" ELSE "false"
                 [] OTHER -> oc[c]
        entry == [name |-> c, arg |-> fr.records, result |-> res,
                  start |-> IF c = "time" THEN start ELSE None,
                  at |-> IF c = "time" THEN t2 ELSE None]
        fr1 == [fr EXCEPT !.log = Append(@, entry),
                          !.time_start = IF c = "time" THEN start ELSE @,
                          !.now = IF c = "time" THEN t2 ELSE @]
    IN  CASE res = "raise" -> [fr1 EXCEPT !.raised = TRUE]
          [] res = "true" -> [fr1 EXCEPT !.rv = fr1.records, !.alias = TRUE]
          [] OTHER -> fr1

\* variant: the loop stops at the first controller that returns true (break)
RECURSIVE run_controllers_break(_, _, _, _, _)
run_controllers_break(ctrls, oc, t1, t2, fr) ==
    IF ctrls = <<>> \/ fr.raised \/ fr.alias THEN fr
    ELSE run_controllers_break(Tail(ctrls), oc, t1, t2,
                               evaluate(Head(ctrls), oc, t1, t2, fr))

\* lines 60-62: for controller in self.get_controllers(): ...
RECURSIVE run_controllers(_, _, _, _, _)
run_controllers(ctrls, oc, t1, t2, fr) ==
    IF ctrls = <<>> \/ fr.raised THEN fr
    ELSE run_controllers(Tail(ctrls), oc, t1, t2,
                         evaluate(Head(ctrls), oc, t1, t2, fr))

\* ---- Buffer.reset ----
\* variant: the list is emptied in place (del self.records[:]), which also
\* empties the batch being returned
reset_in_place(fr) ==
    [fr EXCEPT !.records = <<>>, !.rv = IF fr.alias THEN <<>> ELSE @,
               !.time_start = None, !.flush = FALSE]

\* variant: the records are kept, only the triggers are cleared
reset_keeps_records(fr) ==
    [fr EXCEPT !.time_start = None, !.flush = FALSE]

\* variant: the flush flag is not cleared
reset_keeps_flush(fr) ==
    [fr EXCEPT !.records = <<>>, !.alias = FALSE, !.time_start = None]

\* self.records is bound to a new empty list; the list it referred to, which
\* rv still refers to, is left as it is.
reset(fr) ==
    [fr EXCEPT !.records = <<>>, !.alias = FALSE,
               !.time_start = None, !.flush = FALSE]

\* variant: a pending flush does not replace the controllers, they still run
execute_frame_flush_and_controllers(in, oc, t1, t2) ==
    LET fr0 == [records |-> records \o in,
                rv |-> IF flush THEN records \o in ELSE <<>>, alias |-> flush,
                time_start |-> time_start, flush |-> flush, now |-> now,
                log |-> <<>>, raised |-> FALSE]
        fr1 == run_controllers(get_controllers, oc, t1, t2, fr0)
    IN  IF fr1.raised THEN fr1
        ELSE IF fr1.rv # <<>> THEN reset(fr1)
        ELSE fr1

\* variant: a pending flush is ignored, only the controllers decide
execute_frame_no_flush(in, oc, t1, t2) ==
    LET fr0 == [records |-> records \o in,
                rv |-> <<>>, alias |-> FALSE,
                time_start |-> time_start, flush |-> flush, now |-> now,
                log |-> <<>>, raised |-> FALSE]
        fr1 == run_controllers(get_controllers, oc, t1, t2, fr0)
    IN  IF fr1.raised THEN fr1
        ELSE IF fr1.rv # <<>> THEN reset(fr1)
        ELSE fr1

\* variant: the reset is done in a finally clause, also when a controller
\* raised after another one had triggered
execute_frame_finally(in, oc, t1, t2) ==
    LET fr0 == [records |-> records \o in,
                rv |-> <<>>, alias |-> FALSE,
                time_start |-> time_start, flush |-> flush, now |-> now,
                log |-> <<>>, raised |-> FALSE]
        fr1 == IF fr0.flush
               THEN [fr0 EXCEPT !.rv = fr0.records, !.alias = TRUE]
               ELSE run_controllers(get_controllers, oc, t1, t2, fr0)
    IN  IF fr1.rv # <<>> THEN reset(fr1) ELSE fr1

\* variant: the reset is done whenever a release was decided, whether or not
\* there is anything to release (`if triggered:` for `if rv != []:`)
execute_frame_reset_on_trigger(in, oc, t1, t2) ==
    LET fr0 == [records |-> records \o in,
                rv |-> <<>>, alias |-> FALSE,
                time_start |-> time_start, flush |-> flush, now |-> now,
                log |-> <<>>, raised |-> FALSE]
        fr1 == IF fr0.flush
               THEN [fr0 EXCEPT !.rv = fr0.records, !.alias = TRUE]
               ELSE run_controllers(get_controllers, oc, t1, t2, fr0)
    IN  IF fr1.raised THEN fr1
        ELSE IF fr1.alias THEN reset(fr1)
        ELSE fr1

\* ---- Buffer.execute, as a function from the call's input to its frame ----
execute_frame(in, oc, t1, t2) ==
    LET fr0 == [records |-> records \o in,          \* line 55, in place
                rv |-> <<>>, alias |-> FALSE,       \* line 56
                time_start |-> time_start, flush |-> flush, now |-> now,
                log |-> <<>>, raised |-> FALSE]
        fr1 == IF fr0.flush                          \* line 57
               THEN [fr0 EXCEPT !.rv = fr0.records, !.alias = TRUE]
               ELSE run_controllers(get_controllers, oc, t1, t2, fr0)
    IN  IF fr1.raised THEN fr1
        ELSE IF fr1.rv # <<>> THEN reset(fr1)        \* lines 64-65
        ELSE fr1

\* ---- Buffer.execute ----
execute(in, oc, t1, t2) ==
    \E fr \in {execute_frame(in, oc, t1, t2)} :
      LET released == ~fr.raised /\ fr.rv # <<>> IN
        /\ records' = fr.records
        /\ time_start' = fr.time_start
        /\ flush' = fr.flush
        /\ now' = fr.now
        /\ outcome' = IF fr.raised THEN "raised" ELSE "returned"
        /\ rv' = IF fr.raised THEN <<>> ELSE fr.rv
        /\ rv_is_records' = (~fr.raised /\ fr.alias)
        /\ evals' = fr.log
        /\ pending' = IF released THEN <<>> ELSE pending \o in
        /\ flush_requested' = IF released THEN FALSE ELSE flush_requested
        /\ UNCHANGED config
        /\ UNCHANGED ovars

\* the time controller runs in the next call: it is configured and no flush
\* is pending (it comes before every custom controller, so none can cut it)
time_evaluated == time_threshold # None /\ ~flush

\* What the custom controllers do in one call.  An exception ends the call,
\* so the controllers after a raising one are not run: their entry is fixed.
Outcomes ==
    LET names == {CustomNames[i] : i \in 1..Len(custom_controllers)}
    IN  {oc \in [names -> Results] :
           \A i, j \in 1..Len(custom_controllers) :
              i < j /\ oc[CustomNames[i]] = "raise"
                => oc[CustomNames[j]] = "false"}

\* A tick: the caller passes the next n records.  time.time() is read at the
\* instant of the call and, the second time, at that instant or one later.
Execute ==
    \E n \in 0..MaxBatch :
      /\ next_id + n <= MaxRecords + 1
      /\ next_id' = next_id + n
      /\ calls' = 1 - calls
      /\ \E oc \in Outcomes :
           \E t2 \in {t \in {now, now + 1} : t <= MaxTime} :
             /\ time_evaluated \/ t2 = now
             /\ execute(Ids(next_id, next_id + n), oc, now, t2)

\* ---- the caller asks for a flush: buffer.flush = True ----
request_flush ==
    /\ flush' = TRUE
    /\ flush_requested' = TRUE
    /\ outcome' = "idle"
    /\ rv' = <<>>
    /\ rv_is_records' = FALSE
    /\ evals' = <<>>
    /\ UNCHANGED <<config, records, time_start, now, next_id, pending, calls>>
    /\ UNCHANGED ovars

\* ---- time passes between two calls ----
Tick ==
    /\ now < MaxTime
    /\ now' = now + 1
    /\ outcome' = "idle"
    /\ rv' = <<>>
    /\ rv_is_records' = FALSE
    /\ evals' = <<>>
    /\ UNCHANGED <<config, records, time_start, flush, next_id, pending,
                   flush_requested, calls>>
    /\ UNCHANGED ovars

Next == Execute \/ request_flush \/ Tick

Spec == Init /\ [][Next]_vars

\* Buffers without custom controllers, for the properties of infinite runs.
FairInit == Init /\ custom_controllers = <<>>

\* The buffer keeps being ticked (execute keeps being called) and time passes.
FairSpec ==
    FairInit /\ [][Next]_vars /\ WF_vars(Execute) /\ WF_vars(Tick)

\* ======================= Outlet =======================
Top(t) == stack[t][Len(stack[t])]

Frame(op, pc, arg) == [op |-> op, pc |-> pc, arg |-> arg, got |-> <<>>]

Pushed(t, fr) == [stack EXCEPT ![t] = Append(@, fr)]

Popped(t) == [stack EXCEPT ![t] = SubSeq(@, 1, Len(@) - 1)]

Moved(t, pc) == [stack EXCEPT ![t][Len(stack[t])].pc = pc]

\* the thread is in on_start or on_shutdown, not in a call made from it
InHook(t) == stack[t] # <<>> /\ Top(t).pc = "hook"

\* a call may begin: the thread is not in a call, or its hook makes the call
MayCall(t) ==
    /\ ncalls["try_start"] + ncalls["try_shutdown"] + ncalls["_push"] < MaxCalls
    /\ stack[t] = <<>> \/ (InHook(t) /\ Len(stack[t]) < MaxDepth)

\* variant: the hook is called inside the with block
with_block_around_hook(pc) == pc \in {"check", "set", "call_hook", "hook"}

\* the steps of a call that lie inside `with self._thread_lock:`
with_block(pc) == pc \in {"check", "set"}

\* the holder of the lock once thread t has brought its stack to st
LockAfter(t, st) ==
    IF \E i \in 1..Len(st) : with_block(st[i].pc) THEN t
    ELSE IF lock = t THEN 0 ELSE lock

\* what a step records when it ends no call, no push body and reads nothing
Quiet == last_ret' = "none" /\ last_push' = "none" /\ last_read' = "none"

fixed == <<uses_coroutine, push_kind>>

counters == <<starts, stops, on_starts, on_shutdowns>>

\* ---- Outlet.try_start: the call begins (allow_run_on_start = False) ----
try_start(t) ==
    /\ MayCall(t)
    /\ stack' = Pushed(t, Frame("try_start", "acquire", <<>>))
    /\ ncalls' = [ncalls EXCEPT !["try_start"] = @ + 1]
    /\ Quiet
    /\ UNCHANGED <<active, lock, fixed, counters>>
    /\ UNCHANGED vars

\* ---- Outlet.try_shutdown: the call begins ----
try_shutdown(t) ==
    /\ MayCall(t)
    /\ stack' = Pushed(t, Frame("try_shutdown", "acquire", <<>>))
    /\ ncalls' = [ncalls EXCEPT !["try_shutdown"] = @ + 1]
    /\ Quiet
    /\ UNCHANGED <<active, lock, fixed, counters>>
    /\ UNCHANGED vars

\* variant: the block is entered without waiting for the lock
acquire_no_wait(t) ==
    /\ stack[t] # <<>> /\ Top(t).pc = "acquire"
    /\ stack' = Moved(t, "check")
    /\ lock' = LockAfter(t, stack'[t])
    /\ Quiet
    /\ UNCHANGED <<active, ncalls, fixed, counters>>
    /\ UNCHANGED vars

\* ---- with self._thread_lock: the lock is taken once it is free ----
acquire(t) ==
    /\ stack[t] # <<>> /\ Top(t).pc = "acquire"
    /\ lock = 0
    /\ stack' = Moved(t, "check")
    /\ lock' = LockAfter(t, stack'[t])
    /\ Quiet
    /\ UNCHANGED <<active, ncalls, fixed, counters>>
    /\ UNCHANGED vars

\* variant: the flag is not tested, the call always goes on to set it
check_skipped(t) ==
    /\ stack[t] # <<>> /\ Top(t).pc = "check"
    /\ stack' = Moved(t, "set")
    /\ Quiet
    /\ lock' = LockAfter(t, stack'[t])
    /\ UNCHANGED <<active, ncalls, fixed, counters>>
    /\ UNCHANGED vars

\* ---- if not self._active: / if self._active: ----
\* the flag is as the call wants it: the block is left and the call returns
check(t) ==
    /\ stack[t] # <<>> /\ Top(t).pc = "check"
    /\ IF active = (Top(t).op = "try_shutdown")
       THEN /\ stack' = Moved(t, "set")
            /\ Quiet
       ELSE /\ stack' = Popped(t)
            /\ last_ret' = "ok" /\ last_push' = "none" /\ last_read' = "none"
    /\ lock' = LockAfter(t, stack'[t])
    /\ UNCHANGED <<active, ncalls, fixed, counters>>
    /\ UNCHANGED vars

\* ---- self._active = True / False; allow_run_on_... = True; block left ----
set_active(t) ==
    /\ stack[t] # <<>> /\ Top(t).pc = "set"
    /\ active' = (Top(t).op = "try_start")
    /\ starts' = IF ~active /\ active' THEN starts + 1 ELSE starts
    /\ stops' = IF active /\ ~active' THEN stops + 1 ELSE stops
    /\ stack' = Moved(t, "call_hook")
    /\ lock' = LockAfter(t, stack'[t])
    /\ Quiet
    /\ UNCHANGED <<ncalls, fixed, on_starts, on_shutdowns>>
    /\ UNCHANGED vars

\* ---- if allow_run_on_start: self.on_start() (resp. on_shutdown) ----
hook_begin(t) ==
    /\ stack[t] # <<>> /\ Top(t).pc = "call_hook"
    /\ stack' = Moved(t, "hook")
    /\ on_starts' = IF Top(t).op = "try_start" THEN on_starts + 1 ELSE on_starts
    /\ on_shutdowns' = IF Top(t).op = "try_shutdown"
                       THEN on_shutdowns + 1 ELSE on_shutdowns
    /\ lock' = LockAfter(t, stack'[t])
    /\ Quiet
    /\ UNCHANGED <<active, ncalls, fixed, starts, stops>>
    /\ UNCHANGED vars

\* ---- on_start / on_shutdown returns or raises; so does the call ----
hook_end(t, res) ==
    /\ InHook(t)
    /\ stack' = Popped(t)
    /\ lock' = LockAfter(t, stack'[t])
    /\ last_ret' = res /\ last_push' = "none" /\ last_read' = "none"
    /\ UNCHANGED <<active, ncalls, fixed, counters>>
    /\ UNCHANGED vars

\* ---- Outlet._push: the call begins ----
push_call(t, arg) ==
    /\ MayCall(t) /\ stack[t] = <<>>
    /\ stack' = Pushed(t, Frame("_push", "dispatch", arg))
    /\ ncalls' = [ncalls EXCEPT !["_push"] = @ + 1]
    /\ Quiet
    /\ UNCHANGED <<active, lock, fixed, counters>>
    /\ UNCHANGED vars

\* variant: _push starts an outlet that is not active before pushing
push_dispatch_activates(t) ==
    /\ stack[t] # <<>> /\ Top(t).pc = "dispatch"
    /\ stack' = [stack EXCEPT
         ![t][Len(stack[t])].pc =
              IF push_kind = "coroutine" THEN "awaiting" ELSE "in_push",
         ![t][Len(stack[t])].got = Top(t).arg]
    /\ active' = TRUE
    /\ Quiet
    /\ UNCHANGED <<lock, ncalls, fixed, counters>>
    /\ UNCHANGED vars

\* ---- if self._uses_coroutine: await self.push(...) else: self.push(...) ----
\* Calling a coroutine function only makes a coroutine object: its body runs
\* when awaited.  Calling a plain function runs its body.
push_dispatch(t) ==
    /\ stack[t] # <<>> /\ Top(t).pc = "dispatch"
    /\ IF push_kind = "coroutine" /\ ~uses_coroutine
       THEN /\ stack' = Popped(t)
            /\ last_ret' = "ok" /\ last_push' = "none" /\ last_read' = "none"
       ELSE /\ stack' = [stack EXCEPT
                 ![t][Len(stack[t])].pc =
                      IF push_kind = "coroutine" THEN "awaiting" ELSE "in_push",
                 ![t][Len(stack[t])].got = Top(t).arg]
            /\ Quiet
    /\ UNCHANGED <<active, lock, ncalls, fixed, counters>>
    /\ UNCHANGED vars

\* ---- the body of push ends; a value that is no awaitable cannot be awaited
push_end(t, res) ==
    /\ stack[t] # <<>> /\ Top(t).pc \in {"awaiting", "in_push"}
    /\ stack' = Popped(t)
    /\ last_push' = res
    /\ last_ret' = IF res = "ok" /\ Top(t).pc = "in_push" /\ uses_coroutine
                   THEN "raised" ELSE res
    /\ last_read' = "none"
    /\ UNCHANGED <<active, lock, ncalls, fixed, counters>>
    /\ UNCHANGED vars

\* ---- Outlet.active: the property is read, by a caller or a hook ----
read_active(t) ==
    /\ stack[t] = <<>> \/ InHook(t)
    /\ last_read' = IF active THEN "true" ELSE "false"
    /\ last_ret' = "none" /\ last_push' = "none"
    /\ UNCHANGED <<active, lock, stack, ncalls, fixed, counters>>
    /\ UNCHANGED vars

\* a step a thread takes inside a call it has begun
Step(t) ==
    \/ acquire(t)
    \/ check(t)
    \/ set_active(t)
    \/ hook_begin(t)
    \/ \E res \in {"ok", "raised"} : hook_end(t, res)
    \/ push_dispatch(t)
    \/ \E res \in {"ok", "raised"} : push_end(t, res)

OutletNext ==
    \E t \in Threads :
      \/ try_start(t)
      \/ try_shutdown(t)
      \/ \E arg \in Batches : push_call(t, arg)
      \/ read_active(t)
      \/ Step(t)

\* a Buffer as constructed without thresholds or controllers, left alone
BufferIdle ==
    BufferConstructed /\ count_threshold = None /\ time_threshold = None
         /\ custom_controllers = <<>>

OutletInit ==
    /\ push_kind \in {"coroutine", "function"}
    /\ OutletConstructed
    /\ BufferIdle

OutletSpec == OutletInit /\ [][OutletNext]_allvars

\* every thread goes on with the call it is in
OutletFairSpec == OutletSpec /\ \A t \in Threads : WF_allvars(Step(t))

OutletTypeOK ==
    /\ active \in BOOLEAN /\ uses_coroutine \in BOOLEAN
    /\ lock \in {0} \cup Threads
    /\ \A t \in Threads : Len(stack[t]) <= MaxDepth
    /\ starts \in 0..MaxCalls /\ stops \in 0..MaxCalls
    /\ on_starts \in 0..MaxCalls /\ on_shutdowns \in 0..MaxCalls

\* ---- vocabulary of the properties ----
\* the step is an execute call (every other step leaves outcome "idle")
ExecStep == outcome' # "idle"

\* the records passed to the execute call of the step
Passed == Ids(next_id, next_id')

\* the accumulated sequence of the call, after its append
Appended == records \o Passed

Returned == ExecStep /\ outcome' = "returned"

Raised == ExecStep /\ outcome' = "raised"

ResultsOf(log) == {log[i].result : i \in 1..Len(log)}

NamesOf(log) == [i \in 1..Len(log) |-> log[i].name]

Range(seq) == {seq[i] : i \in 1..Len(seq)}

\* record i is in the batch returned by the execute call just made
ReleasedNow(i) == outcome = "returned" /\ i \in Range(rv)

\* the evaluations of the time controller in a log (at most one)
TimeEvals(log) == {log[i] : i \in {j \in 1..Len(log) : log[j].name = "time"}}

\* the order the controllers are specified to run in
ExpectedOrder ==
    (IF count_threshold = None THEN <<>> ELSE <<"count">>)
    \o (IF time_threshold = None THEN <<>> ELSE <<"time">>)
    \o [i \in 1..Len(custom_controllers) |-> CustomNames[i]]

TypeOK ==
    /\ count_threshold \in {None} \cup (0..MaxCount)
    /\ time_threshold \in {None} \cup (0..MaxThreshold)
    /\ Len(custom_controllers) <= MaxCustom
    /\ time_start \in {None} \cup (0..MaxTime)
    /\ flush \in BOOLEAN
    /\ now \in 0..MaxTime
    /\ next_id \in 1..(MaxRecords + 1)
    /\ outcome \in {"idle", "returned", "raised"}
    /\ rv_is_records \in BOOLEAN
    /\ calls \in {0, 1}

\* ---- C1 ----
\* C1: the accumulated sequence is always the in-order concatenation of the
\* records passed to execute since the last call that returned a non-empty
\* batch; a call that returns gives back nothing or all of it; accumulated
\* shrinks only by the full reset of a call that returns all of it.
C1_Conservation ==
    /\ [](records = pending)
    /\ [][Returned => rv' = <<>> \/ rv' = pending \o Passed]_vars
    /\ [][Len(records') < Len(records)
            => /\ Returned /\ rv' = Appended
               /\ records' = <<>> /\ time_start' = None /\ flush' = FALSE]_vars
    /\ [][ExecStep /\ ~(Returned /\ rv' # <<>>) => records' = Appended]_vars

\* a batch gathered over several calls has been released in one piece
C1_Witness ==
    /\ outcome = "returned" /\ rv = <<2, 3, 4>> /\ records = <<>>

C3_FullReset ==
    /\ [](outcome = "returned" /\ rv # <<>>
            => records = <<>> /\ time_start = None /\ flush = FALSE
               /\ ~rv_is_records)
    /\ [][Returned /\ Appended # <<>> /\ records' = <<>>
            => rv' = Appended]_vars

\* a release that had a running clock to clear
C3_Witness ==
    /\ outcome = "returned" /\ Len(rv) = 2 /\ records = <<>>
    /\ time_start = None /\ ~flush
    /\ \E i \in 1..Len(evals) : evals[i].name = "time" /\ evals[i].start < now

\* ---- C4 ----
\* C4: with only count_threshold = N configured and no manual flush, execute
\* returns the whole accumulated sequence exactly when its length after the
\* append exceeds N, and an empty sequence otherwise.
C4_CountController ==
    [][ExecStep /\ count_threshold # None /\ time_threshold = None
         /\ custom_controllers = <<>> /\ ~flush
        => /\ outcome' = "returned"
           /\ Len(Appended) > count_threshold => rv' = Appended /\ rv' # <<>>
           /\ Len(Appended) <= count_threshold => rv' = <<>>]_vars

\* N = 2: r1, r2 were held back and the third record released all three
C4_Witness ==
    /\ count_threshold = 2 /\ time_threshold = None
    /\ custom_controllers = <<>> /\ ~flush_requested
    /\ outcome = "returned" /\ rv = <<1, 2, 3>> /\ records = <<>>

\* ---- C5 ----
\* C5: time_start is unset at construction and is set, to the instant of the
\* call, by the first execute call after construction or a reset that
\* evaluates the time controller; the time controller never returns true
\* before the time elapsed since that start exceeds time_threshold; once it
\* exceeds it, the next execute call gives back the whole accumulated
\* sequence, whatever records it was passed (a call that ends with the
\* error of a custom controller gives back nothing: see C9).
C5_TimeController ==
    /\ time_start = None
    /\ [][time_start' # time_start => ExecStep]_vars
    /\ [][ExecStep
            => \A e \in TimeEvals(evals') :
                 /\ e.start = IF time_start = None THEN now ELSE time_start
                 /\ e.at \in now..now'
                 /\ e.result = "true" => e.at - e.start > time_threshold
                 /\ e.result = "false" => e.at - e.start <= time_threshold
                 /\ ~(Returned /\ rv' # <<>>) => time_start' = e.start]_vars
    /\ [][ExecStep /\ TimeEvals(evals') = {}
            => time_start' = time_start \/ (Returned /\ rv' # <<>>)]_vars
    /\ [][Returned /\ time_start # None /\ now - time_start > time_threshold
            => rv' = Appended]_vars

\* the clock was started by a call made some time after construction, and a
\* later call released the records on time alone
C5_Witness ==
    /\ count_threshold = None /\ custom_controllers = <<>> /\ ~flush_requested
    /\ outcome = "returned" /\ rv # <<>>
    /\ \E e \in TimeEvals(evals) : e.result = "true" /\ e.start >= 1

\* ---- C6 ----
\* C6 as stated: with a flush pending, the execute call returns the whole
\* accumulated sequence and performs the full reset, so that the flush flag
\* is false after the call.
C6_Original ==
    [][ExecStep /\ flush
        => /\ Returned /\ rv' = Appended
           /\ records' = <<>> /\ time_start' = None /\ flush' = FALSE]_vars

\* C6 amended: with a flush pending, the execute call evaluates no controller
\* and returns the whole accumulated sequence; if that sequence is non-empty
\* the call performs the full reset and the flush flag is false afterwards;
\* if it is empty, nothing is reset and the flush flag stays set.
C6_ManualFlush ==
    [][ExecStep /\ flush
        => /\ Returned /\ rv' = Appended /\ evals' = <<>>
           /\ Appended # <<>>
                => records' = <<>> /\ time_start' = None /\ flush' = FALSE
           /\ Appended = <<>>
                => records' = <<>> /\ time_start' = time_start /\ flush' = TRUE]_vars

\* one record, below the count threshold, was released: by the flush alone
C6_Witness ==
    /\ count_threshold = 2 /\ time_threshold = None /\ custom_controllers = <<>>
    /\ outcome = "returned" /\ Len(rv) = 1 /\ evals = <<>> /\ ~flush

\* ---- C7 ----
\* C7: with no controller configured, an execute call returns an empty
\* sequence and keeps the records unless a flush was requested since the
\* last release; then it returns the whole accumulated sequence, in append
\* order, and the buffer is empty afterwards.
C7_NoControllers ==
    [][ExecStep /\ count_threshold = None /\ time_threshold = None
         /\ custom_controllers = <<>>
        => /\ Returned
           /\ flush_requested => rv' = pending \o Passed /\ records' = <<>>
           /\ ~flush_requested => rv' = <<>> /\ records' = pending \o Passed]_vars

\* the scenario: flush request, then execute([r1, r2]) returns [r1, r2]
C7_Witness ==
    /\ count_threshold = None /\ time_threshold = None
    /\ custom_controllers = <<>>
    /\ outcome = "returned" /\ rv = <<1, 2>> /\ records = <<>> /\ ~flush

\* ---- C8 ----
\* C8 as stated: in an execute call without a pending flush every configured
\* controller is evaluated exactly once, in the order count, time, custom
\* controllers, each on the accumulated sequence after the append.
C8_Original ==
    [][ExecStep /\ ~flush
        => /\ NamesOf(evals') = ExpectedOrder
           /\ \A i \in 1..Len(evals') : evals'[i].arg = Appended]_vars

\* C8 amended: in an execute call without a pending flush the controllers
\* are evaluated in the order count, time, custom controllers, each at most
\* once and on the accumulated sequence after the append; all of them are
\* evaluated, also those after one that returned true, unless one raises:
\* then the raising one is the last evaluated.
C8_ControllerOrder ==
    [][ExecStep /\ ~flush
        => /\ Len(evals') <= Len(ExpectedOrder)
           /\ NamesOf(evals') = SubSeq(ExpectedOrder, 1, Len(evals'))
           /\ \A i \in 1..Len(evals') :
                 /\ evals'[i].arg = Appended
                 /\ evals'[i].result = "raise" => i = Len(evals') /\ Raised
           /\ Returned => Len(evals') = Len(ExpectedOrder)
           /\ Raised => evals' # <<>> /\ evals'[Len(evals')].result = "raise"]_vars

\* all four controllers ran although the first one had returned true
C8_Witness ==
    /\ outcome = "returned" /\ NamesOf(evals) = <<"count", "time", "c1", "c2">>
    /\ evals[1].result = "true" /\ evals[4].result = "false"
    /\ Len(evals[4].arg) = 2

\* ---- C9 ----
\* C9: an execute call in which a custom controller raises ends with the
\* error and performs no reset, also when an earlier controller had returned
\* true: accumulated is then what it was followed by the records of the
\* call; and every batch released later starts with what was accumulated.
C9_ErrorKeepsRecords ==
    /\ [][ExecStep => (Raised <=> "raise" \in ResultsOf(evals'))]_vars
    /\ [][Raised => /\ records' = Appended /\ pending' = Appended
                    /\ flush' = flush /\ rv' = <<>>]_vars
    /\ [][Returned /\ rv' # <<>>
            => Len(rv') >= Len(records)
               /\ SubSeq(rv', 1, Len(records)) = records]_vars

\* the count controller had triggered before c1 raised; the records stay
C9_Witness ==
    /\ outcome = "raised" /\ Len(records) = 2
    /\ \E i \in 1..Len(evals) : evals[i].result = "true"

\* ---- C10 ----
\* C10 as stated: an execute call that ends with a controller error leaves
\* time_start and flush as they were; it only appends its records.
C10_Original ==
    [][Raised => /\ time_start' = time_start /\ flush' = flush
                 /\ records' = Appended]_vars

\* C10 amended: an execute call that ends with a controller error leaves
\* flush as it was and appends its records; it leaves time_start as it was
\* unless a time threshold is configured and time_start was unset: then the
\* time controller, which runs before the custom controllers, has set it to
\* the instant of the call.
C10_ErrorFrame ==
    [][Raised => /\ flush' = flush /\ records' = Appended
                 /\ time_start' = IF time_threshold # None /\ time_start = None
                                  THEN now ELSE time_start]_vars

\* a failed call made while the clock was already running
C10_Witness ==
    /\ outcome = "raised" /\ time_start # None /\ time_start < now
    /\ records # <<>>

\* ---- C11 ----
\* C11: whatever the configuration, and whatever the custom controllers
\* answer on an empty sequence, an execute([]) call made right after an
\* execute call that returned a non-empty batch does not end with a batch:
\* if it returns, it returns an empty sequence, and nothing is accumulated.
C11_ResetIdempotent ==
    [][ExecStep /\ outcome = "returned" /\ rv # <<>> /\ Passed = <<>>
        => /\ records' = <<>>
           /\ Returned => rv' = <<>>
           /\ \A i \in 1..Len(evals') : evals'[i].arg = <<>>]_vars

\* everything passed so far has been released, and the execute([]) just made
\* returned nothing although a controller answered true on the empty sequence
C11_Witness ==
    /\ outcome = "returned" /\ rv = <<>> /\ records = <<>>
    /\ next_id > 1 /\ pending = <<>>
    /\ evals # <<>> /\ evals[Len(evals)].result = "true"
    /\ evals[Len(evals)].arg = <<>>

\* ---- C19 ----
\* C19: an execute call that finds the accumulated sequence empty after the
\* append while a flush is pending or a controller returns true, returns an
\* empty sequence and resets nothing: the flush flag is as before and
\* time_start is not cleared (it keeps the value it had, or the start the
\* time controller gave it in this call).  The flush still pending, or the
\* time threshold already exceeded, then releases the records of a later
\* call that brings some and returns.
C19_EmptyTrigger ==
    /\ [][Returned /\ Appended = <<>>
            /\ (flush \/ "true" \in ResultsOf(evals'))
            => /\ rv' = <<>> /\ rv_is_records' /\ records' = <<>>
               /\ flush' = flush
               /\ time_start # None => time_start' = time_start
               /\ \A e \in TimeEvals(evals') : time_start' = e.start]_vars
    /\ [][Returned /\ Passed # <<>>
            /\ (flush \/ (time_start # None /\ now - time_start > time_threshold))
            => rv' = Appended /\ rv' # <<>> /\ records' = <<>>
               /\ flush' = FALSE /\ time_start' = None]_vars

\* the time threshold was exceeded with nothing accumulated: the call
\* returned the empty list itself and the clock was left running
C19_Witness ==
    /\ outcome = "returned" /\ rv = <<>> /\ rv_is_records /\ ~flush
    /\ count_threshold = None /\ custom_controllers = <<>>
    /\ time_start # None /\ now - time_start > time_threshold

\* ---- vocabulary of the Outlet properties ----
\* the frames of the calls in progress, as <<thread, depth>>
FrameIds == {<<t, i>> \in Threads \X (1..MaxDepth) : i <= Len(stack[t])}

\* calls of op that have set the flag and have not yet called their hook
HookDue(op) ==
    Cardinality({f \in FrameIds : /\ stack[f[1]][f[2]].op = op
                                  /\ stack[f[1]][f[2]].pc = "call_hook"})

\* thread t has a call of op at one of the pcs
At(t, op, pcs) ==
    \E i \in 1..Len(stack[t]) : stack[t][i].op = op /\ stack[t][i].pc \in pcs

Quiescent == \A t \in Threads : stack[t] = <<>>

\* the threads with a push body in progress
PushInFlight == {t \in Threads : At(t, "_push", {"awaiting", "in_push"})}

\* thread t takes the step
Acts(t) == stack'[t] # stack[t]

\* the step ends the call on top of t's stack
Ends(t) == stack[t] # <<>> /\ stack'[t] = SubSeq(stack[t], 1, Len(stack[t]) - 1)

\* ---- C12 ----
\* C12: in every interleaving of try_start and try_shutdown calls of several
\* threads, each write that turns the flag on is followed by exactly one
\* invocation of on_start, by the thread that wrote, and each write that
\* turns it off by exactly one invocation of on_shutdown; writes turning it
\* on and off alternate.  With try_start calls only, on_start is invoked
\* once and the outlet is active when they are over; likewise for
\* try_shutdown calls on an outlet started once.
C12_ExactlyOnce ==
    /\ on_starts + HookDue("try_start") = starts
    /\ on_shutdowns + HookDue("try_shutdown") = stops
    /\ starts = stops + (IF active THEN 1 ELSE 0)
    /\ Quiescent => on_starts = starts /\ on_shutdowns = stops
    /\ ncalls["try_shutdown"] = 0
         => /\ on_starts <= 1
            /\ Quiescent /\ ncalls["try_start"] >= 1 => on_starts = 1 /\ active
    /\ ncalls["try_start"] = 1
         => /\ on_shutdowns <= 1
            /\ Quiescent /\ stops >= 1 => on_shutdowns = 1 /\ ~active

\* two try_start calls race: one is in on_start, the other one holds the
\* lock and is about to find the outlet active
C12_Witness ==
    /\ At(1, "try_start", {"hook"}) /\ At(2, "try_start", {"check"})
    /\ ncalls["try_shutdown"] = 0 /\ on_starts = 1 /\ active

\* ---- C13 ----
\* C13: the outlet is constructed inactive; a try_start call goes on to set
\* the flag and run on_start exactly when it finds the outlet inactive at
\* its check, a try_shutdown call exactly when it finds it active;
\* otherwise the call returns at once, without error, having changed
\* nothing and run no hook; this holds however often the outlet has been
\* started and shut down before.
C13_Lifecycle ==
    /\ ~active
    /\ [][\A t \in Threads :
            Acts(t) /\ stack[t] # <<>> /\ Top(t).pc = "check"
            => IF active = (Top(t).op = "try_shutdown")
               THEN ~Ends(t) /\ stack'[t][Len(stack[t])].pc = "set"
               ELSE /\ Ends(t) /\ last_ret' = "ok"
                    /\ UNCHANGED <<active, counters>>]_allvars
    /\ [][\A t \in Threads :
            Acts(t) /\ stack[t] # <<>> /\ Top(t).pc = "set"
            => /\ active = (Top(t).op = "try_shutdown")
               /\ active' = ~active
               /\ stack'[t][Len(stack[t])].pc = "call_hook"]_allvars
    /\ [][\A t \in Threads :
            Acts(t) /\ stack[t] # <<>> /\ Top(t).pc = "call_hook"
            => /\ on_starts' = on_starts + (IF Top(t).op = "try_start" THEN 1 ELSE 0)
               /\ on_shutdowns' =
                    on_shutdowns + (IF Top(t).op = "try_shutdown" THEN 1 ELSE 0)
               /\ active' = active]_allvars
    /\ [][on_starts' # on_starts \/ on_shutdowns' # on_shutdowns
            => \E t \in Threads :
                 Acts(t) /\ stack[t] # <<>> /\ Top(t).pc = "call_hook"]_allvars

\* a restart: started, shut down, and started again, on_start having run twice
C13_Witness ==
    /\ starts = 2 /\ stops = 1 /\ on_starts = 2 /\ on_shutdowns = 1 /\ active

\* ---- C14 ----
\* C14: _active changes only by the write of a try_start call (to True) or
\* of a try_shutdown call (to False) whose thread holds the lock; no step of
\* _push, of push, of a hook, and no read of active changes it, and _push
\* goes on to push whatever the flag is.
C14_ActiveFrame ==
    /\ [][active' # active
            => /\ lock # 0 /\ Acts(lock)
               /\ Top(lock).pc = "set"
               /\ Top(lock).op = IF active' THEN "try_start" ELSE "try_shutdown"]_allvars
    /\ [][\A t \in Threads :
            Acts(t) /\ stack[t] # <<>>
              /\ (Top(t).op = "_push" \/ Top(t).pc \in {"call_hook", "hook"})
            => active' = active]_allvars
    /\ [][last_read' # "none" => active' = active /\ stack' = stack]_allvars
    /\ [][\A t \in Threads :
            Acts(t) /\ stack[t] # <<>> /\ Top(t).pc = "dispatch"
            => ~Ends(t) /\ stack'[t][Len(stack[t])].pc \in {"awaiting", "in_push"}]_allvars

\* a push is in progress on an outlet that is not active
C14_Witness ==
    /\ PushInFlight # {} /\ ~active /\ starts = 0

\* ---- C15 ----
\* C15: _uses_coroutine is what push was found to be at construction and
\* never changes; a _push call runs the body of push once, with the batch
\* and update it was given, awaited exactly when _uses_coroutine is set,
\* and ends as that body ends: with its error if it raises.
C15_PushDispatch ==
    /\ uses_coroutine = (push_kind = "coroutine")
    /\ [][uses_coroutine' = uses_coroutine /\ push_kind' = push_kind]_allvars
    /\ [][\A t \in Threads :
            Acts(t) /\ Ends(t) /\ Top(t).op = "_push"
            => /\ Top(t).pc \in {"awaiting", "in_push"}
               /\ Top(t).pc = "awaiting" <=> uses_coroutine
               /\ Top(t).got = Top(t).arg
               /\ last_push' \in {"ok", "raised"}
               /\ last_ret' = last_push']_allvars

\* the awaited push raised, and so did _push
C15_Witness ==
    /\ uses_coroutine /\ last_push = "raised" /\ last_ret = "raised"

\* ---- C16 ----
\* C16: an outlet never has two push calls in progress at the same time,
\* also when several threads call _push on it concurrently.
C16_OnePushInFlight == Cardinality(PushInFlight) <= 1

\* ---- C17 ----
\* C17: the lock is held only by a thread that is testing or setting the
\* flag, never by a thread that is in on_start, on_shutdown or push or has
\* yet to call its hook; a thread that waits for the lock can take it or the
\* holder can go on; and every call a thread has begun comes to an end, the
\* hooks and push bodies ending by themselves.
C17_HooksOutsideGuard ==
    /\ [](lock # 0 => stack[lock] # <<>> /\ Top(lock).pc \in {"check", "set"})
    /\ [](\A t \in Threads :
            (At(t, "try_start", {"call_hook", "hook"})
               \/ At(t, "try_shutdown", {"call_hook", "hook"})
               \/ At(t, "_push", {"dispatch", "awaiting", "in_push"}))
            => \A i \in 1..Len(stack[t]) :
                 stack[t][i].pc \in {"call_hook", "hook", "dispatch",
                                     "awaiting", "in_push"}
                   => lock # t \/ i < Len(stack[t]))
    /\ \A t \in Threads : (stack[t] # <<>>) ~> (stack[t] = <<>>)

\* a hook has called try_shutdown and takes the lock while another thread is
\* in a hook of its own
C17_Witness ==
    /\ Len(stack[1]) = 2 /\ stack[1][1].pc = "hook" /\ stack[1][2].pc = "check"
    /\ lock = 1 /\ InHook(2)

\* ---- C18 ----
\* C18: the write that turns the flag off, and the on_shutdown that follows
\* it, do not happen while another thread has turned the flag on and has
\* not yet called on_start or is still in it; so on_shutdown is never
\* invoked more often than on_start.
C18_NoOverlap ==
    /\ [](on_shutdowns <= on_starts)
    /\ [][active /\ ~active'
            => \A u \in Threads \ {lock} :
                 ~At(u, "try_start", {"call_hook", "hook"})]_allvars

\* ---- C20 ----
\* C20: the flag is set before the hook is called: active is True when
\* on_start is called and False when on_shutdown is called; a hook that
\* raises ends its call with the error and leaves the flag as it is.
C20_FlipBeforeHook ==
    /\ [][\A t \in Threads :
            Acts(t) /\ stack[t] # <<>> /\ Top(t).pc = "call_hook"
            => active = (Top(t).op = "try_start")]_allvars
    /\ [][\A t \in Threads :
            Acts(t) /\ InHook(t) /\ Ends(t)
            => active' = active /\ last_ret' \in {"ok", "raised"}]_allvars
====
